---- MODULE Spec2Model ----
(***************************************************************************)
(* A model of grex's src/regexp/regexp.rs: the construction pipeline of    *)
(* RegExp::from (canonicalization of the test cases, the feature passes of *)
(* grapheme_clusters, the hand-off to DFA::from), the rendering of         *)
(* Display::fmt for RegExp, and the verbose-mode reformatter               *)
(* apply_verbose_mode with its tokenizer VERBOSE_MODE_REGEX.               *)
(*                                                                         *)
(* Text.  A test case is a sequence of Unicode code points (integers); its *)
(* length and its order are those of its UTF-8 bytes, as for a Rust        *)
(* String.  Rendered text is a sequence of characters, each written as a   *)
(* one-character string, with the names ESC (U+001B), VT (U+000B),         *)
(* NBSP (U+00A0), NEL (U+0085), LF (U+000A) and U+2000 .. U+205F for the   *)
(* characters that have no printable form.                                 *)
(***************************************************************************)
EXTENDS Integers, Sequences, FiniteSets

VARIABLES
    config,          \* RegExpConfig: the six flags the file reads
    test_cases,      \* the caller's Vec<String>, mutated in place by from
    pc,              \* the position of the running function
    idx,             \* the position of a feature-pass loop in clusters
    clusters,        \* grapheme_clusters' local Vec<GraphemeCluster>
    calls,           \* history: the feature-pass calls made, in order
    dfa_inputs,      \* history: the collections handed to DFA::from
    ast,             \* RegExp.ast, the root Expression
    regexp,          \* the single-line pattern (fmt's local, the reformatter's input)
    output,          \* what fmt writes / apply_verbose_mode returns
    pos,             \* find_iter's position in regexp
    tokens,          \* history: the matches find_iter has yielded
    verbose_regexp,  \* apply_verbose_mode's Vec of lines
    nesting_level,   \* apply_verbose_mode's usize counter (signed reading of its bits)
    panic            \* the panic message of an aborted call, or "" when none

vars == <<config, test_cases, pc, idx, clusters, calls, dfa_inputs, ast, regexp,
          output, pos, tokens, verbose_regexp, nesting_level, panic>>

(***************************************************************************)
(* Bounds.                                                                 *)
(***************************************************************************)
MaxCases == 3        \* test cases in the caller's collection
MaxFragments == 3    \* pattern fragments in a reformatter input

(***************************************************************************)
(* Generic sequence helpers.                                               *)
(***************************************************************************)
RECURSIVE Flatten(_)
Flatten(ss) == IF ss = <<>> THEN <<>> ELSE Head(ss) \o Flatten(Tail(ss))

\* s[p .. p + Len(w) - 1] = w
HasAt(s, p, w) ==
    /\ p >= 1
    /\ p + Len(w) - 1 <= Len(s)
    /\ \A k \in 1..Len(w) : s[p + k - 1] = w[k]

\* str::contains for a pattern w
Contains(s, w) == \E p \in 1..Len(s) : HasAt(s, p, w)

StartsWith(s, w) == HasAt(s, 1, w)
EndsWith(s, w) == Len(w) <= Len(s) /\ HasAt(s, Len(s) - Len(w) + 1, w)

(***************************************************************************)
(* Test cases: Rust Strings as code-point sequences.                       *)
(***************************************************************************)
\* The UTF-8 encoding of one code point (up to three bytes, U+0000..U+FFFF).
Utf8(c) ==
    IF c < 128 THEN <<c>>
    ELSE IF c < 2048 THEN <<192 + (c \div 64), 128 + (c % 64)>>
    ELSE <<224 + (c \div 4096), 128 + ((c \div 64) % 64), 128 + (c % 64)>>

Bytes(s) == Flatten([k \in 1..Len(s) |-> Utf8(s[k])])

\* String::len: the length in bytes
StrLen(s) == Len(Bytes(s))

\* Ord for integers (usize::cmp, u8::cmp)
IntCmp(a, b) == IF a < b THEN "Less" ELSE IF a > b THEN "Greater" ELSE "Equal"

\* Ord for String: lexicographic on the bytes
RECURSIVE BytesCmp(_, _)
BytesCmp(a, b) ==
    IF a = <<>> /\ b = <<>> THEN "Equal"
    ELSE IF a = <<>> THEN "Less"
    ELSE IF b = <<>> THEN "Greater"
    ELSE IF Head(a) # Head(b) THEN IntCmp(Head(a), Head(b))
    ELSE BytesCmp(Tail(a), Tail(b))

StrCmp(a, b) == BytesCmp(Bytes(a), Bytes(b))

\* char::to_lowercase on the code points of the model's alphabet:
\* 'A' -> 'a'; U+0130 (capital I with dot above) -> 'i' U+0307; others unchanged.
CharToLowercase(c) ==
    IF c >= 65 /\ c <= 90 THEN <<c + 32>>
    ELSE IF c = 304 THEN <<105, 775>>
    ELSE <<c>>

\* str::to_lowercase
ToLowercase(s) == Flatten([k \in 1..Len(s) |-> CharToLowercase(s[k])])

\* RegExp::convert_to_lowercase: every test case replaced by its lowercase form
convert_to_lowercase(tc) == [k \in 1..Len(tc) |-> ToLowercase(tc[k])]

\* The closure of sort_by: length first, then the String order
LenThenOrd(a, b) ==
    IF IntCmp(StrLen(a), StrLen(b)) = "Equal" THEN StrCmp(a, b)
    ELSE IntCmp(StrLen(a), StrLen(b))

\* The comparison a sort is run with: "ord" (Vec::sort) or "len" (the closure)
Compare(by, a, b) == IF by = "ord" THEN StrCmp(a, b) ELSE LenThenOrd(a, b)

\* A stable sort (Vec::sort, Vec::sort_by): insertion after the last element
\* that is not greater.
RECURSIVE InsertSorted(_, _, _)
InsertSorted(by, sorted, x) ==
    IF sorted = <<>> THEN <<x>>
    ELSE IF Compare(by, x, Head(sorted)) = "Less" THEN <<x>> \o sorted
    ELSE <<Head(sorted)>> \o InsertSorted(by, Tail(sorted), x)

RECURSIVE SortBy(_, _)
SortBy(by, tc) ==
    IF tc = <<>> THEN <<>>
    ELSE InsertSorted(by, SortBy(by, SubSeq(tc, 1, Len(tc) - 1)), tc[Len(tc)])

\* Vec::dedup: consecutive equal elements collapse to the first
RECURSIVE Dedup(_)
Dedup(tc) ==
    IF Len(tc) <= 1 THEN tc
    ELSE IF tc[1] = tc[2] THEN Dedup(Tail(tc))
    ELSE <<tc[1]>> \o Dedup(Tail(tc))

\* mutant of sort: the dedup call is missing
sort_without_dedup(tc) == SortBy("len", SortBy("ord", tc))

\* RegExp::sort
sort(tc) == SortBy("len", Dedup(SortBy("ord", tc)))

\* mutant of Canonicalize: the lowercasing runs after the sort
canonicalize_sort_first(tc, cfg) ==
    IF cfg.is_case_insensitive_matching THEN convert_to_lowercase(sort(tc)) ELSE sort(tc)

\* The canonicalization of RegExp::from: optional lowercasing, then sort
Canonicalize(tc, cfg) ==
    IF cfg.is_case_insensitive_matching THEN sort(convert_to_lowercase(tc)) ELSE sort(tc)

\* The strings test cases are drawn from: the empty string, a case pair
\* ("a", "A"), strings a longer one of which sorts first ("Aa" < "a"), strings
\* that lowercase to the same string ("Aa", "aa"), and a multi-byte character
\* whose lowercase form is longer (U+0130, two bytes, lowercases to three).
ExampleStrings ==
    { <<>>, <<97>>, <<65>>, <<65, 97>>, <<97, 97>>, <<304>>, <<97, 304>> }

ExampleCollections == UNION { [1..n -> ExampleStrings] : n \in 0..MaxCases }

(***************************************************************************)
(* grapheme_clusters: segmentation and the two feature passes.  The        *)
(* segmenter and the passes are methods of GraphemeCluster (crate::char);  *)
(* a cluster keeps its units and, as history, the passes applied to it.    *)
(***************************************************************************)
\* A combining mark joins the user-perceived character before it.
IsCombining(c) == c >= 768 /\ c <= 879

RECURSIVE Graphemes(_)
Graphemes(s) ==
    IF s = <<>> THEN <<>>
    ELSE LET rest == Graphemes(SubSeq(s, 1, Len(s) - 1))
             c == s[Len(s)]
         IN  IF IsCombining(c) /\ rest # <<>>
             THEN [rest EXCEPT ![Len(rest)] = [@ EXCEPT !.unit = @ \o <<c>>]]
             ELSE Append(rest, [unit |-> <<c>>, count |-> 1])

\* GraphemeCluster::from: one unit per grapheme cluster, in order
GraphemeClusterFrom(s) == [graphemes |-> Graphemes(s), applied |-> <<>>]

\* The unit a letter folds to: the class \w
WordClass == <<92, 119>>

IsLetter(c) == (c >= 65 /\ c <= 90) \/ (c >= 97 /\ c <= 122) \/ c = 304

\* GraphemeCluster::convert_to_char_classes: every unit that is a letter
\* becomes the class unit
cluster_convert_to_char_classes(cl) ==
    [graphemes |-> [k \in 1..Len(cl.graphemes) |->
                       IF IsLetter(cl.graphemes[k].unit[1])
                       THEN [cl.graphemes[k] EXCEPT !.unit = WordClass]
                       ELSE cl.graphemes[k]],
     applied |-> Append(cl.applied, "char_classes")]

RECURSIVE FoldRuns(_)
FoldRuns(gs) ==
    IF Len(gs) <= 1 THEN gs
    ELSE LET rest == FoldRuns(Tail(gs))
         IN  IF gs[1].unit = rest[1].unit
             THEN <<[rest[1] EXCEPT !.count = @ + gs[1].count]>> \o Tail(rest)
             ELSE <<gs[1]>> \o rest

\* GraphemeCluster::convert_repetitions: a run of equal units becomes one
\* quantified unit
cluster_convert_repetitions(cl) ==
    [graphemes |-> FoldRuns(cl.graphemes),
     applied |-> Append(cl.applied, "repetitions")]

\* mutant of PassOrder: the repetition loop is written before the class loop
PassOrderSwapped == <<"repetitions", "char_classes">>

\* The order of the two loops of grapheme_clusters
PassOrder == <<"char_classes", "repetitions">>

PassEnabled(pass, cfg) ==
    IF pass = "char_classes" THEN cfg.is_char_class_feature_enabled
    ELSE cfg.is_repetition_converted

PassIndex(pass) == CHOOSE k \in 1..Len(PassOrder) : PassOrder[k] = pass

\* The program point at loop k, element i, of n clusters: a disabled loop and
\* a finished loop fall through to the next one, the last one to the return.
RECURSIVE Point(_, _, _, _)
Point(k, i, n, cfg) ==
    IF k > Len(PassOrder) THEN [pc |-> "dfa", idx |-> 0]
    ELSE IF PassEnabled(PassOrder[k], cfg) /\ i <= n
         THEN [pc |-> PassOrder[k], idx |-> i]
         ELSE Point(k + 1, 1, n, cfg)

(***************************************************************************)
(* The values of the variables a specification does not use.               *)
(***************************************************************************)
NoAst == [variant |-> "None"]

NoConfig ==
    [is_case_insensitive_matching |-> FALSE,
     is_char_class_feature_enabled |-> FALSE,
     is_repetition_converted |-> FALSE,
     is_capturing_group_enabled |-> FALSE,
     is_output_colorized |-> FALSE,
     is_verbose_mode_enabled |-> FALSE]

PipelineIdle ==
    /\ test_cases = <<>> /\ idx = 0 /\ clusters = <<>>
    /\ calls = <<>> /\ dfa_inputs = <<>>

ReformatterIdle ==
    /\ pos = 0 /\ tokens = <<>> /\ verbose_regexp = <<>>
    /\ nesting_level = 0 /\ panic = ""

(***************************************************************************)
(* Spec: RegExp::from, from the caller's collection to DFA::from.          *)
(***************************************************************************)
Init ==
    /\ test_cases \in ExampleCollections
    /\ \E ci, cc, rep \in BOOLEAN :
          config = [NoConfig EXCEPT !.is_case_insensitive_matching = ci,
                                    !.is_char_class_feature_enabled = cc,
                                    !.is_repetition_converted = rep]
    /\ pc = "from"
    /\ idx = 0 /\ clusters = <<>> /\ calls = <<>> /\ dfa_inputs = <<>>
    /\ ast = NoAst /\ regexp = <<>> /\ output = <<>>
    /\ ReformatterIdle

\* from, lines 35-38: the caller's collection is canonicalized in place
FromCanonicalize ==
    /\ pc = "from"
    /\ test_cases' = Canonicalize(test_cases, config)
    /\ pc' = "grapheme_clusters"
    /\ UNCHANGED <<config, idx, clusters, calls, dfa_inputs, ast, regexp, output,
                   pos, tokens, verbose_regexp, nesting_level, panic>>

\* grapheme_clusters, lines 66-69: one cluster per test case, order kept
Segment ==
    /\ pc = "grapheme_clusters"
    /\ clusters' = [k \in 1..Len(test_cases) |-> GraphemeClusterFrom(test_cases[k])]
    /\ LET next == Point(1, 1, Len(test_cases), config)
       IN  pc' = next.pc /\ idx' = next.idx
    /\ UNCHANGED <<config, test_cases, calls, dfa_inputs, ast, regexp, output,
                   pos, tokens, verbose_regexp, nesting_level, panic>>

\* grapheme_clusters, lines 71-75: one iteration of the class loop
ConvertToCharClasses ==
    /\ pc = "char_classes"
    /\ clusters' = [clusters EXCEPT ![idx] = cluster_convert_to_char_classes(@)]
    /\ calls' = Append(calls, <<"char_classes", idx>>)
    /\ LET next == Point(PassIndex("char_classes"), idx + 1, Len(clusters), config)
       IN  pc' = next.pc /\ idx' = next.idx
    /\ UNCHANGED <<config, test_cases, dfa_inputs, ast, regexp, output,
                   pos, tokens, verbose_regexp, nesting_level, panic>>

\* grapheme_clusters, lines 77-81: one iteration of the repetition loop
ConvertRepetitions ==
    /\ pc = "repetitions"
    /\ clusters' = [clusters EXCEPT ![idx] = cluster_convert_repetitions(@)]
    /\ calls' = Append(calls, <<"repetitions", idx>>)
    /\ LET next == Point(PassIndex("repetitions"), idx + 1, Len(clusters), config)
       IN  pc' = next.pc /\ idx' = next.idx
    /\ UNCHANGED <<config, test_cases, dfa_inputs, ast, regexp, output,
                   pos, tokens, verbose_regexp, nesting_level, panic>>

\* from, lines 39-45: the returned clusters go to DFA::from, the object is built
DfaFrom ==
    /\ pc = "dfa"
    /\ dfa_inputs' = Append(dfa_inputs, clusters)
    /\ pc' = "built"
    /\ UNCHANGED <<config, test_cases, idx, clusters, calls, ast, regexp, output,
                   pos, tokens, verbose_regexp, nesting_level, panic>>

Next ==
    \/ FromCanonicalize
    \/ Segment
    \/ ConvertToCharClasses
    \/ ConvertRepetitions
    \/ DfaFrom

Spec == Init /\ [][Next]_vars

Canonicalized == pc # "from"

(***************************************************************************)
(* C1: after from's canonicalization the caller's collection holds no two  *)
(* equal strings, is in ascending order of length, and any two adjacent    *)
(* strings of equal length are in ascending lexicographic order.           *)
(***************************************************************************)
C1_CanonicalOrder ==
    Canonicalized =>
        /\ \A i, j \in 1..Len(test_cases) : i # j => test_cases[i] # test_cases[j]
        /\ \A i \in 1..(Len(test_cases) - 1) :
              /\ StrLen(test_cases[i]) <= StrLen(test_cases[i + 1])
              /\ StrLen(test_cases[i]) = StrLen(test_cases[i + 1])
                    => StrCmp(test_cases[i], test_cases[i + 1]) = "Less"

\* three strings left by from, two of one length, the first of them shorter
\* than the second and after it in the String order
C1_Witness ==
    /\ Canonicalized
    /\ Len(test_cases) = 3
    /\ StrLen(test_cases[1]) < StrLen(test_cases[2])
    /\ StrLen(test_cases[2]) = StrLen(test_cases[3])
    /\ StrCmp(test_cases[2], test_cases[1]) = "Less"

(***************************************************************************)
(* C2: canonicalization is idempotent: canonicalizing the canonicalized    *)
(* collection again, under the same configuration, gives the same sequence.*)
(***************************************************************************)
C2_Idempotent ==
    Canonicalized => Canonicalize(test_cases, config) = test_cases

\* a case-insensitive run that left several strings, one of them lowercased
\* U+0130
C2_Witness ==
    /\ Canonicalized
    /\ config.is_case_insensitive_matching
    /\ Len(test_cases) >= 2
    /\ \E i \in 1..Len(test_cases) : test_cases[i] = <<105, 775>>

(***************************************************************************)
(* C6: no cluster has convert_repetitions applied before every cluster has *)
(* had convert_to_char_classes applied (when both are enabled); each       *)
(* enabled pass is applied exactly once per cluster, in example order; a   *)
(* disabled pass is applied to none; and the collection is handed to       *)
(* DFA::from exactly once, when the passes are over.                       *)
(***************************************************************************)
PassCalls(pass, n) == [k \in 1..n |-> <<pass, k>>]

ExpectedCalls(cfg, n) ==
    (IF cfg.is_char_class_feature_enabled THEN PassCalls("char_classes", n) ELSE <<>>)
    \o (IF cfg.is_repetition_converted THEN PassCalls("repetitions", n) ELSE <<>>)

ExpectedApplied(cfg) ==
    (IF cfg.is_char_class_feature_enabled THEN <<"char_classes">> ELSE <<>>)
    \o (IF cfg.is_repetition_converted THEN <<"repetitions">> ELSE <<>>)

C6_PassOrder ==
    /\ \A i \in 1..Len(clusters) :
          (config.is_char_class_feature_enabled
             /\ \E k \in 1..Len(clusters[i].applied) : clusters[i].applied[k] = "repetitions")
          => \A j \in 1..Len(clusters) :
                \E k \in 1..Len(clusters[j].applied) : clusters[j].applied[k] = "char_classes"
    /\ \E m \in 0..Len(ExpectedCalls(config, Len(clusters))) :
          calls = SubSeq(ExpectedCalls(config, Len(clusters)), 1, m)
    /\ pc \in {"dfa", "built"} =>
          /\ calls = ExpectedCalls(config, Len(test_cases))
          /\ Len(clusters) = Len(test_cases)
          /\ \A i \in 1..Len(clusters) : clusters[i].applied = ExpectedApplied(config)
    /\ pc = "built" => dfa_inputs = <<clusters>>
    /\ pc # "built" => dfa_inputs = <<>>

\* both passes enabled, several clusters, the hand-off done
C6_Witness ==
    /\ pc = "built"
    /\ config.is_char_class_feature_enabled
    /\ config.is_repetition_converted
    /\ Len(clusters) >= 2
    /\ Len(calls) = 2 * Len(clusters)

(***************************************************************************)
(* Rendered text.  VERBOSE_MODE_REGEX, lines 175-211, and the matches      *)
(* find_iter yields: leftmost, and among the matches at one position the   *)
(* first in the order of the alternatives, each repetition greedy.         *)
(***************************************************************************)
\* The characters of lines 204 and 206
Meta == {"^", "(", ")", "{", "}", "[", "]", "|", "$", "*", "+", "?", "\\", ".", "-"}

\* The characters of line 202, after the backslash
Escapable == Meta \cup {"n", "r", "t", "v"}

\* Lines 180-194: the colour introducers, after ESC [
Palette ==
    { <<"1", ";", "3", "1", "m">>, <<"1", ";", "3", "5", "m">>,
      <<"1", ";", "3", "3", "m">>, <<"1", ";", "3", "2", "m">>,
      <<"1", ";", "3", "6", "m">>, <<"1", "0", "4", ";", "3", "7", "m">>,
      <<"4", "0", ";", "9", "3", "m">>, <<"1", "0", "3", ";", "3", "0", "m">> }

\* Line 208
ColorReset == <<"ESC", "[", "0", "m">>

\* Lines 177-196: the length of a colour introducer at p, 0 when there is none
ColorIntroLen(s, p) ==
    IF HasAt(s, p, <<"ESC", "[">>) /\ \E w \in Palette : HasAt(s, p + 2, w)
    THEN 2 + Len(CHOOSE w \in Palette : HasAt(s, p + 2, w))
    ELSE 0

\* Line 200, \[.+\]: the position of the closing bracket of the class opened
\* at q: the last ] that at least one character, and no line feed, separates
\* from the [; 0 when there is none
ClassEnd(s, q) ==
    LET ends == { j \in (q + 2)..Len(s) :
                     s[j] = "]" /\ \A k \in (q + 1)..(j - 1) : s[k] # "LF" }
    IN  IF ends = {} THEN 0 ELSE CHOOSE j \in ends : \A k \in ends : k <= j

\* Line 206: the position after the run of non-metacharacters that starts at q
RunEnd(s, q) ==
    CHOOSE m \in (q + 1)..(Len(s) + 1) :
        /\ \A k \in q..(m - 1) : s[k] \notin Meta
        /\ m <= Len(s) => s[m] \in Meta

\* Lines 197-207: the position after the token at q, 0 when no alternative
\* matches there
TokenEnd(s, q) ==
    IF q > Len(s) THEN 0
    ELSE IF HasAt(s, q, <<"(", "?", ":">>) THEN q + 3
    ELSE IF s[q] = "[" /\ ClassEnd(s, q) # 0 THEN ClassEnd(s, q) + 1
    ELSE IF s[q] = "\\" /\ q + 1 <= Len(s) /\ s[q + 1] \in Escapable THEN q + 2
    ELSE IF s[q] \in Meta THEN q + 1
    ELSE RunEnd(s, q)

\* The position after the match that starts at p, 0 when there is none: the
\* introducer is taken when a token follows it, the reset when it is there
MatchEnd(s, p) ==
    LET q == p + ColorIntroLen(s, p)
        e == IF q > p /\ TokenEnd(s, q) # 0 THEN TokenEnd(s, q) ELSE TokenEnd(s, p)
    IN  IF e = 0 THEN 0
        ELSE IF HasAt(s, e, ColorReset) THEN e + Len(ColorReset)
        ELSE e

\* find_iter, line 217: the leftmost position at or after from where a match
\* starts, 0 when there is none
RECURSIVE MatchStart(_, _)
MatchStart(s, from) ==
    IF from > Len(s) THEN 0
    ELSE IF MatchEnd(s, from) # 0 THEN from
    ELSE MatchStart(s, from + 1)

HasMatch(s, from) == MatchStart(s, from) # 0

\* str::replace for a one-character pattern
ReplaceChar(s, c, w) ==
    IF \A k \in 1..Len(s) : s[k] # c THEN s
    ELSE Flatten([k \in 1..Len(s) |-> IF s[k] = c THEN w ELSE <<s[k]>>])

\* mutant of EscapeToken: the replacement of '#' is missing
EscapeTokenWithoutHash(t) ==
    LET r2 == ReplaceChar(t, "NBSP", <<"\\", "s">>)
        r3 == ReplaceChar(r2, "U+2000", <<"\\", "s">>)
        r4 == ReplaceChar(r3, "U+2001", <<"\\", "s">>)
        r5 == ReplaceChar(r4, "U+2002", <<"\\", "s">>)
        r6 == ReplaceChar(r5, "U+2003", <<"\\", "s">>)
        r7 == ReplaceChar(r6, "U+2004", <<"\\", "s">>)
        r8 == ReplaceChar(r7, "U+205F", <<"\\", "s">>)
        r9 == ReplaceChar(r8, "NEL", <<"\\", "s">>)
    IN  ReplaceChar(r9, " ", <<"\\", " ">>)

\* Lines 218-230
EscapeToken(t) ==
    LET r1 == ReplaceChar(t, "#", <<"\\", "#">>)
        r2 == ReplaceChar(r1, "NBSP", <<"\\", "s">>)
        r3 == ReplaceChar(r2, "U+2000", <<"\\", "s">>)
        r4 == ReplaceChar(r3, "U+2001", <<"\\", "s">>)
        r5 == ReplaceChar(r4, "U+2002", <<"\\", "s">>)
        r6 == ReplaceChar(r5, "U+2003", <<"\\", "s">>)
        r7 == ReplaceChar(r6, "U+2004", <<"\\", "s">>)
        r8 == ReplaceChar(r7, "U+205F", <<"\\", "s">>)
        r9 == ReplaceChar(r8, "NEL", <<"\\", "s">>)
    IN  ReplaceChar(r9, " ", <<"\\", " ">>)

\* Line 232
IsCharClass(substr) == StartsWith(substr, <<"[">>) /\ EndsWith(substr, <<"]">>)

\* Line 234
Closes(substr) ==
    /\ ~IsCharClass(substr)
    /\ Contains(substr, <<")">>)
    /\ ~Contains(substr, <<"\\", ")">>)

\* Line 241
Opens(substr) == Contains(substr, <<"(">>) /\ ~Contains(substr, <<"\\", "(">>)

\* "  ".repeat(n)
Indentation(n) == [k \in 1..(2 * n) |-> " "]

\* mutant of LoopBody: a signed counter that goes below zero and is clamped
\* only where the indentation is built
LoopBodySigned(st, tok, overflow_checks) ==
    LET substr == EscapeToken(tok)
        level == IF Closes(substr) THEN st.nesting_level - 1 ELSE st.nesting_level
    IN  [verbose_regexp |->
             Append(st.verbose_regexp,
                    Indentation(IF level < 0 THEN 0 ELSE level) \o substr),
         nesting_level |-> IF Opens(substr) THEN level + 1 ELSE level,
         panic |-> ""]

\* Lines 218-243: one iteration of the loop over the matches.  nesting_level
\* is a usize: 0 - 1 panics where overflow is checked and wraps to usize::MAX
\* where it is not, and there repeat panics, its byte count 2 * usize::MAX
\* overflowing.  The model keeps the signed reading of the counter's bits, so
\* -1 stands for usize::MAX and 2 * n overflows exactly when n reads negative.
LoopBody(st, tok, overflow_checks) ==
    LET substr == EscapeToken(tok)
        underflow == Closes(substr) /\ st.nesting_level = 0
        level == IF Closes(substr) THEN st.nesting_level - 1 ELSE st.nesting_level
    IN  IF underflow /\ overflow_checks
        THEN [st EXCEPT !.panic = "attempt to subtract with overflow"]
        ELSE IF level < 0
        THEN [st EXCEPT !.nesting_level = level, !.panic = "capacity overflow"]
        ELSE [verbose_regexp |-> Append(st.verbose_regexp, Indentation(level) \o substr),
              nesting_level |-> IF Opens(substr) THEN level + 1 ELSE level,
              panic |-> ""]

\* Vec<String>::join("\n")
RECURSIVE Join(_)
Join(lines) ==
    IF lines = <<>> THEN <<>>
    ELSE IF Len(lines) = 1 THEN lines[1]
    ELSE lines[1] \o <<"LF">> \o Join(Tail(lines))

\* Lines 217-244 as a whole: the state after the loop, or at its panic
RECURSIVE Scan(_, _, _, _)
Scan(s, from, st, overflow_checks) ==
    IF st.panic # "" \/ ~HasMatch(s, from) THEN st
    ELSE LET p == MatchStart(s, from)
             e == MatchEnd(s, p)
         IN  Scan(s, e, LoopBody(st, SubSeq(s, p, e - 1), overflow_checks),
                  overflow_checks)

\* apply_verbose_mode, lines 214-246
apply_verbose_mode(s, verbose_mode_flag, overflow_checks) ==
    LET st == Scan(s, 1, [verbose_regexp |-> <<verbose_mode_flag>>,
                          nesting_level |-> 0, panic |-> ""], overflow_checks)
    IN  [output |-> IF st.panic = "" THEN Join(st.verbose_regexp) ELSE <<>>,
         panic |-> st.panic]

(***************************************************************************)
(* Display::fmt for RegExp.  The decorations' texts and colours are those  *)
(* of ColorizableString, the body's text that of Expression's Display      *)
(* (crate::char, crate::ast).                                              *)
(***************************************************************************)
\* ColoredString's Display: the text between an introducer and the reset
Colorize(text, code, colorized) ==
    IF colorized /\ text # <<>> THEN <<"ESC", "[">> \o code \o text \o ColorReset
    ELSE text

\* ColorizableString::to_colorized_string(is_output_colorized).to_string()
Decoration(name, colorized) ==
    CASE name = "EmptyString" -> <<>>
      [] name = "IgnoreCaseFlag" ->
            Colorize(<<"(", "?", "i", ")">>, <<"4", "0", ";", "9", "3", "m">>, colorized)
      [] name = "VerboseModeFlag" ->
            Colorize(<<"(", "?", "x", ")">>, <<"4", "0", ";", "9", "3", "m">>, colorized)
      [] name = "Caret" -> Colorize(<<"^">>, <<"1", ";", "3", "3", "m">>, colorized)
      [] name = "DollarSign" -> Colorize(<<"$">>, <<"1", ";", "3", "3", "m">>, colorized)
      [] name = "CapturingLeftParenthesis" ->
            Colorize(<<"(">>, <<"1", ";", "3", "2", "m">>, colorized)
      [] name = "NonCapturingLeftParenthesis" ->
            Colorize(<<"(", "?", ":">>, <<"1", ";", "3", "2", "m">>, colorized)
      [] name = "RightParenthesis" ->
            Colorize(<<")">>, <<"1", ";", "3", "2", "m">>, colorized)

\* Lines 89-114: the six decorations fmt resolves from the configuration
ignore_case_flag(cfg) ==
    Decoration(IF cfg.is_case_insensitive_matching THEN "IgnoreCaseFlag" ELSE "EmptyString",
               cfg.is_output_colorized)
verbose_mode_flag(cfg) == Decoration("VerboseModeFlag", cfg.is_output_colorized)
left_anchor(cfg) == Decoration("Caret", cfg.is_output_colorized)
left_parenthesis(cfg) ==
    Decoration(IF cfg.is_capturing_group_enabled THEN "CapturingLeftParenthesis"
               ELSE "NonCapturingLeftParenthesis", cfg.is_output_colorized)
right_parenthesis(cfg) == Decoration("RightParenthesis", cfg.is_output_colorized)
right_anchor(cfg) == Decoration("DollarSign", cfg.is_output_colorized)

\* A literal's text, its metacharacters escaped
EscapeLiteral(text) ==
    Flatten([k \in 1..Len(text) |->
                IF text[k] \in Meta THEN <<"\\", text[k]>> ELSE <<text[k]>>])

\* Expression's Display: self.ast.to_string()
RECURSIVE to_string(_, _)
Grouped(e, cfg) == left_parenthesis(cfg) \o to_string(e, cfg) \o right_parenthesis(cfg)

RECURSIVE JoinOptions(_, _)
JoinOptions(es, cfg) ==
    IF es = <<>> THEN <<>>
    ELSE IF Len(es) = 1 THEN to_string(es[1], cfg)
    ELSE to_string(es[1], cfg) \o <<"|">> \o JoinOptions(Tail(es), cfg)

to_string(e, cfg) ==
    CASE e.variant = "Literal" -> EscapeLiteral(e.text)
      [] e.variant = "CharacterClass" -> <<"[">> \o e.chars \o <<"]">>
      [] e.variant = "Repetition" ->
            (IF (e.expr.variant = "Literal" /\ Len(e.expr.text) = 1)
                \/ e.expr.variant = "CharacterClass"
             THEN to_string(e.expr, cfg) ELSE Grouped(e.expr, cfg)) \o <<e.quantifier>>
      [] e.variant = "Concatenation" ->
            (IF e.left.variant = "Alternation" THEN Grouped(e.left, cfg)
             ELSE to_string(e.left, cfg))
            \o (IF e.right.variant = "Alternation" THEN Grouped(e.right, cfg)
                ELSE to_string(e.right, cfg))
      [] e.variant = "Alternation" -> JoinOptions(e.options, cfg)

Literal(text) == [variant |-> "Literal", text |-> text]
CharacterClass(chars) == [variant |-> "CharacterClass", chars |-> chars]
Repetition(e, q) == [variant |-> "Repetition", expr |-> e, quantifier |-> q]
Concatenation(l, r) == [variant |-> "Concatenation", left |-> l, right |-> r]
Alternation(es) == [variant |-> "Alternation", options |-> es]

\* The expression trees fmt is run on: every root variant, bodies with an
\* escaped parenthesis, a vertical tab, a space and a '#', an inner group.
Asts ==
    { Literal(<<>>),
      Literal(<<"a", "b", "c">>),
      Literal(<<"a", "(", "b">>),
      Literal(<<"a", "VT", " ", "#">>),
      CharacterClass(<<"a", "b">>),
      Repetition(Literal(<<"a">>), "?"),
      Repetition(Literal(<<"a", "b">>), "*"),
      Concatenation(Literal(<<"a">>), Alternation(<<Literal(<<"b">>), Literal(<<"c">>)>>)),
      Alternation(<<Literal(<<"a">>), Literal(<<"b", "c">>)>>),
      Alternation(<<Literal(<<"VT">>), CharacterClass(<<"a", "b">>)>>),
      Alternation(<<Repetition(Literal(<<"a", "b">>), "?"), Literal(<<"c", ")">>)>>) }

\* mutant of Assemble: every root is wrapped in the grouping tokens
AssembleAlwaysGrouped(e, cfg) ==
    ignore_case_flag(cfg) \o left_anchor(cfg) \o left_parenthesis(cfg)
    \o to_string(e, cfg) \o right_parenthesis(cfg) \o right_anchor(cfg)

\* mutant of Assemble: the last two arguments of the first format! swapped
AssembleAnchorInside(e, cfg) ==
    IF e.variant = "Alternation"
    THEN ignore_case_flag(cfg) \o left_anchor(cfg) \o left_parenthesis(cfg)
         \o to_string(e, cfg) \o right_anchor(cfg) \o right_parenthesis(cfg)
    ELSE ignore_case_flag(cfg) \o left_anchor(cfg) \o to_string(e, cfg) \o right_anchor(cfg)

\* Lines 116-133: the match on the root variant
Assemble(e, cfg) ==
    IF e.variant = "Alternation"
    THEN ignore_case_flag(cfg) \o left_anchor(cfg) \o left_parenthesis(cfg)
         \o to_string(e, cfg) \o right_parenthesis(cfg) \o right_anchor(cfg)
    ELSE ignore_case_flag(cfg) \o left_anchor(cfg) \o to_string(e, cfg) \o right_anchor(cfg)

\* Lines 116-137: the assembled pattern, its vertical tabs written \v
Rendered(e, cfg) == ReplaceChar(Assemble(e, cfg), "VT", <<"\\", "v">>)

(***************************************************************************)
(* SpecDisplay: fmt on a built RegExp.                                     *)
(***************************************************************************)
InitDisplay ==
    /\ ast \in Asts
    /\ \E ci, cg, col, vm \in BOOLEAN :
          config = [NoConfig EXCEPT !.is_case_insensitive_matching = ci,
                                    !.is_capturing_group_enabled = cg,
                                    !.is_output_colorized = col,
                                    !.is_verbose_mode_enabled = vm]
    /\ pc = "fmt"
    /\ regexp = <<>> /\ output = <<>>
    /\ PipelineIdle
    /\ ReformatterIdle

\* fmt, lines 88-144
Display ==
    /\ pc = "fmt"
    /\ regexp' = Rendered(ast, config)
    /\ \E overflow_checks \in BOOLEAN :
          LET res == IF config.is_verbose_mode_enabled
                     THEN apply_verbose_mode(regexp', verbose_mode_flag(config),
                                             overflow_checks)
                     ELSE [output |-> regexp', panic |-> ""]
          IN  /\ output' = res.output
              /\ panic' = res.panic
              /\ pc' = IF res.panic = "" THEN "shown" ELSE "panicked"
    /\ UNCHANGED <<config, test_cases, idx, clusters, calls, dfa_inputs, ast,
                   pos, tokens, verbose_regexp, nesting_level>>

NextDisplay == Display

SpecDisplay == InitDisplay /\ [][NextDisplay]_vars

NonVerboseShown == pc = "shown" /\ ~config.is_verbose_mode_enabled

(***************************************************************************)
(* C3, as claimed: whatever the root variant and the flags, verbose mode   *)
(* off, the text fmt writes begins with the left anchor decoration and     *)
(* ends with the right anchor decoration.                                  *)
(***************************************************************************)
C3_Original ==
    NonVerboseShown =>
        /\ StartsWith(output, left_anchor(config))
        /\ EndsWith(output, right_anchor(config))

(***************************************************************************)
(* C3, amended: verbose mode off, the text fmt writes begins with the      *)
(* case-insensitive flag decoration (empty unless case-insensitive         *)
(* matching is on) followed at once by the left anchor decoration, and     *)
(* ends with the right anchor decoration; it begins with the left anchor   *)
(* decoration itself exactly when case-insensitive matching is off.        *)
(***************************************************************************)
C3_Anchors ==
    NonVerboseShown =>
        /\ StartsWith(output, ignore_case_flag(config) \o left_anchor(config))
        /\ config.is_case_insensitive_matching <=> ~StartsWith(output, left_anchor(config))
        /\ EndsWith(output, right_anchor(config))
        /\ Len(output) >= Len(ignore_case_flag(config)) + Len(left_anchor(config))
                          + Len(right_anchor(config))

\* an Alternation root rendered with the case-insensitive flag, in colour
C3_Witness ==
    /\ NonVerboseShown
    /\ ast.variant = "Alternation"
    /\ config.is_case_insensitive_matching
    /\ config.is_output_colorized
    /\ ~StartsWith(output, left_anchor(config))

(***************************************************************************)
(* C4: the rendered pattern has the grouping tokens (capturing or          *)
(* non-capturing, as configured) around the rendered body, between the     *)
(* anchors, if and only if the root is an Alternation; for every other     *)
(* root the anchors are applied to the body directly.                      *)
(***************************************************************************)
RenderedBody == ReplaceChar(to_string(ast, config), "VT", <<"\\", "v">>)

GroupedForm ==
    ignore_case_flag(config) \o left_anchor(config) \o left_parenthesis(config)
    \o RenderedBody \o right_parenthesis(config) \o right_anchor(config)

BareForm ==
    ignore_case_flag(config) \o left_anchor(config) \o RenderedBody
    \o right_anchor(config)

C4_Grouping ==
    pc \in {"shown", "panicked"} =>
        /\ (regexp = GroupedForm) <=> (ast.variant = "Alternation")
        /\ (regexp = BareForm) <=> (ast.variant # "Alternation")
        /\ NonVerboseShown => output = regexp

\* both kinds of root rendered: an Alternation with the capturing token, and
\* (in another state) a root whose body holds an inner group
C4_Witness ==
    /\ NonVerboseShown
    /\ ast.variant = "Alternation"
    /\ config.is_capturing_group_enabled
    /\ regexp = GroupedForm
    /\ Contains(regexp, <<"\\", "v">>)

(***************************************************************************)
(* SpecVerbose: apply_verbose_mode on a single-line pattern, one match of  *)
(* find_iter per step.  A pattern is a concatenation of fragments: group   *)
(* tokens, character classes (plain, holding a parenthesis), a literal, a  *)
(* backslash (which escapes the fragment after it), the characters the     *)
(* per-token processing rewrites, a colour introducer and the reset.       *)
(***************************************************************************)
Fragments ==
    { <<"(">>, <<")">>, <<"(", "?", ":">>,
      <<"[", "a", "]">>, <<"[", "(", "]">>, <<"[", ")", "]">>,
      <<"a">>, <<"\\">>, <<"#">>, <<" ">>, <<"NBSP">>,
      <<"ESC", "[", "1", ";", "3", "2", "m">>, ColorReset }

ReformatterInputs ==
    { Flatten(fs) : fs \in UNION { [1..n -> Fragments] : n \in 0..MaxFragments } }

InitVerbose ==
    /\ regexp \in ReformatterInputs
    /\ config = [NoConfig EXCEPT !.is_verbose_mode_enabled = TRUE]
    /\ pc = "scan"
    /\ pos = 1
    /\ tokens = <<>>
    /\ verbose_regexp = <<verbose_mode_flag(config)>>
    /\ nesting_level = 0
    /\ panic = ""
    /\ output = <<>>
    /\ ast = NoAst
    /\ PipelineIdle

\* Lines 217-244: the next match and the loop body on it
NextToken ==
    /\ pc = "scan"
    /\ HasMatch(regexp, pos)
    /\ LET p == MatchStart(regexp, pos)
           e == MatchEnd(regexp, p)
           tok == SubSeq(regexp, p, e - 1)
       IN  /\ \E overflow_checks \in BOOLEAN :
                 LET st == LoopBody([verbose_regexp |-> verbose_regexp,
                                     nesting_level |-> nesting_level,
                                     panic |-> panic], tok, overflow_checks)
                 IN  /\ verbose_regexp' = st.verbose_regexp
                     /\ nesting_level' = st.nesting_level
                     /\ panic' = st.panic
                     /\ pc' = IF st.panic = "" THEN "scan" ELSE "panicked"
           /\ tokens' = Append(tokens, tok)
           /\ pos' = e
    /\ UNCHANGED <<config, test_cases, idx, clusters, calls, dfa_inputs, ast,
                   regexp, output>>

\* Line 246: no match is left, the lines are joined and returned
Return ==
    /\ pc = "scan"
    /\ ~HasMatch(regexp, pos)
    /\ output' = Join(verbose_regexp)
    /\ pc' = "done"
    /\ UNCHANGED <<config, test_cases, idx, clusters, calls, dfa_inputs, ast,
                   regexp, pos, tokens, verbose_regexp, nesting_level, panic>>

NextVerbose ==
    \/ NextToken
    \/ Return

SpecVerbose == InitVerbose /\ [][NextVerbose]_vars

(***************************************************************************)
(* Reading an output back.                                                 *)
(***************************************************************************)
\* the lines of a text, split at its line feeds
RECURSIVE SplitLines(_)
SplitLines(text) ==
    IF \A k \in 1..Len(text) : text[k] # "LF" THEN <<text>>
    ELSE LET n == CHOOSE k \in 1..Len(text) :
                     text[k] = "LF" /\ \A j \in 1..(k - 1) : text[j] # "LF"
         IN  <<SubSeq(text, 1, n - 1)>> \o SplitLines(SubSeq(text, n + 1, Len(text)))

\* the number of spaces a line begins with
LeadingSpaces(line) ==
    CHOOSE n \in 0..Len(line) :
        /\ \A k \in 1..n : line[k] = " "
        /\ n < Len(line) => line[n + 1] # " "

StripIndentation(line) == SubSeq(line, LeadingSpaces(line) + 1, Len(line))

\* an output without its header line, its indentation and its line breaks
Stripped(text) ==
    LET lines == Tail(SplitLines(text))
    IN  Flatten([k \in 1..Len(lines) |-> StripIndentation(lines[k])])

\* \s and "\ " turned back into a space, left to right
RECURSIVE Unescaped(_)
Unescaped(text) ==
    IF text = <<>> THEN <<>>
    ELSE IF HasAt(text, 1, <<"\\", "s">>) \/ HasAt(text, 1, <<"\\", " ">>)
         THEN <<" ">> \o Unescaped(SubSeq(text, 3, Len(text)))
         ELSE <<Head(text)>> \o Unescaped(Tail(text))

WhiteSpaces ==
    {"NBSP", "U+2000", "U+2001", "U+2002", "U+2003", "U+2004", "U+205F", "NEL"}

\* a pattern with every rewritten whitespace character read as a space
SpacesAlike(text) ==
    [k \in 1..Len(text) |-> IF text[k] \in WhiteSpaces THEN " " ELSE text[k]]

\* the escapes of the per-token processing, character by character
EscapedChar(c) ==
    IF c = "#" THEN <<"\\", "#">>
    ELSE IF c \in WhiteSpaces THEN <<"\\", "s">>
    ELSE IF c = " " THEN <<"\\", " ">>
    ELSE <<c>>

Escaped(text) == Flatten([k \in 1..Len(text) |-> EscapedChar(text[k])])

Scanned == Len(tokens') = Len(tokens) + 1

LastToken == EscapeToken(tokens'[Len(tokens')])

IsGroupOpener(tok) == ~IsCharClass(EscapeToken(tok)) /\ Opens(EscapeToken(tok))

IsGroupCloser(tok) == Closes(EscapeToken(tok))

\* the nesting level the rule of C7 gives after the first n tokens
RECURSIVE LevelAfter(_, _)
LevelBefore(toks, n) ==
    LevelAfter(toks, n - 1) - (IF Closes(EscapeToken(toks[n])) THEN 1 ELSE 0)

LevelAfter(toks, n) ==
    IF n = 0 THEN 0
    ELSE LevelBefore(toks, n) + (IF Opens(EscapeToken(toks[n])) THEN 1 ELSE 0)

\* the tokens whose lines have been emitted
Emitted == 1..(Len(verbose_regexp) - 1)

IndentOf(i) == LeadingSpaces(verbose_regexp[i + 1])

\* token i opens the group that token j closes: the openers and the closers
\* between them balance, and no later opener before j has that property
Balanced(i, j) ==
    Cardinality({k \in (i + 1)..(j - 1) : IsGroupOpener(tokens[k])})
        = Cardinality({k \in (i + 1)..(j - 1) : IsGroupCloser(tokens[k])})

OpensFor(i, j) ==
    /\ i < j
    /\ IsGroupOpener(tokens[i])
    /\ IsGroupCloser(tokens[j])
    /\ Balanced(i, j)
    /\ \A k \in (i + 1)..(j - 1) : IsGroupOpener(tokens[k]) => ~Balanced(k, j)

(***************************************************************************)
(* C7, as claimed: every token line is indented by two spaces per nesting  *)
(* level, the level starting at 0, going down before the line of a token   *)
(* that is no character class and holds an unescaped ')', and up after the *)
(* line of a token that holds an unescaped '('; hence the line of a        *)
(* closing ')' has the indentation of the line of the group opener it      *)
(* closes, and the lines between them are indented deeper.                 *)
(***************************************************************************)
C7_Claim ==
    /\ \A i \in Emitted :
          verbose_regexp[i + 1]
              = Indentation(LevelBefore(tokens, i)) \o EscapeToken(tokens[i])
    /\ \A i, j \in Emitted :
          OpensFor(i, j) =>
              /\ IndentOf(j) = IndentOf(i)
              /\ \A k \in (i + 1)..(j - 1) : IndentOf(k) >= IndentOf(i) + 2

(***************************************************************************)
(* C8, as claimed: a token that is a character class (it starts with '['   *)
(* and ends with ']') never changes the nesting level, whatever stands     *)
(* between its brackets.                                                   *)
(***************************************************************************)
C8_Claim ==
    [][(Scanned /\ IsCharClass(LastToken)) => nesting_level' = nesting_level]_vars

(***************************************************************************)
(* C9, as claimed: when a token that is no character class and holds an    *)
(* unescaped ')' is processed at nesting level 0, the level goes below     *)
(* zero and the scan goes on: that token's line is emitted and the scan    *)
(* is not aborted.                                                         *)
(***************************************************************************)
\* token i is a closer met at nesting level 0
UnmatchedCloser(i) == Closes(EscapeToken(tokens[i])) /\ LevelAfter(tokens, i - 1) = 0

C10_Claim ==
    \A i \in 1..Len(tokens) :
        IsCharClass(tokens[i]) =>
            \A k \in 3..(Len(tokens[i]) - 1) : tokens[i][k] # "]"

====
